---- MODULE Spec2Model ----
\* SHAKE-128 / SHAKE-256 (Keccak sponge) of the Dilithium co-design
\* repository: the Keccak-f[1600] permutation, the sponge engine
\* (shake_init / shake_absorb / shake_finalize / shake_squeeze) and the
\* one-shot calls shake128 / shake256.
\*
\* A 64-bit lane is the set of the bit positions (0 = least significant)
\* that are 1 in the uint64_t, so XOR is symmetric difference, AND is
\* intersection, NOT is the complement in 0..63 and a shift moves the
\* positions and drops those that leave 0..63: the width of the lane is
\* kept exactly.  The flat byte view of ctx->state is little endian: byte p
\* is bits 8*(p%8) .. 8*(p%8)+7 of lane p/8.
EXTENDS Integers, Sequences, FiniteSets, TLC

VARIABLES
    ctx,      \* the keccak_state: [state, rate, absorb_pos]
    shr64,    \* what the build makes of the shift x >> 64 in rotl64(x, 0)
    last,     \* the last call made: [op, arg]
    diag,     \* what the last call printed on stderr ("" when nothing)
    phase,    \* the phase of the protocol: "absorbing" or "squeezing"
    wf,       \* TRUE while the calls made are init absorb* finalize squeeze*
    calls,    \* number of calls made on the context since shake_init
    msg,      \* the message that the absorb calls feed in pieces
    inlen,    \* number of input bytes absorbed since shake_init
    fin,      \* the context as the first shake_finalize left it
    out,      \* the bytes squeezed since shake_finalize
    perms,    \* number of keccak_f1600 applications since shake_init
    hi,       \* highest flat byte index accessed since shake_init, -1 if none
    runs,     \* the one-shot calls completed: [bits, mem, input, outlen, output]
    kf,       \* the keccak_f1600 call in progress, loop by loop (see KfIdle)
    xof,      \* the one-shot call in progress, call by call (see XofIdle)
    kg        \* the key-generation arithmetic in progress (see KgIdle)

vars == <<ctx, shr64, last, diag, phase, wf, calls, msg, inlen, fin, out, perms,
          hi, runs, kf, xof, kg>>

-----------------------------------------------------------------------------
(* Program constants *)

KECCAK_ROUNDS == 24
STATE_SIZE == 25
SHAKE128_RATE == 168
SHAKE256_RATE == 136

Lane64 == 0 .. 63

\* The value of the only element of a one-element set.  It is used to bind
\* an intermediate result to a name once, as an assignment to a C local.
Only(S) == CHOOSE e \in S : TRUE

\* The offsets laid out by x * 5 + y instead of y * 5 + x.
keccak_rotations_by_xy ==
    << 0,  36, 3,  41, 18,
       1,  44, 10, 45, 2,
       62, 6,  43, 15, 61,
       28, 55, 25, 21, 56,
       27, 20, 39, 8,  14 >>

keccak_rotations ==
    << 0,  1,  62, 28, 27,
       36, 44, 6,  55, 20,
       3,  10, 43, 25, 39,
       41, 45, 15, 21, 8,
       18, 2,  61, 56, 14 >>

\* keccak_round_constants, each as the set of its 1 bits.
keccak_round_constants ==
    << {0},                   {1, 7, 15},
       {1, 3, 7, 15, 63},     {15, 31, 63},
       {0, 1, 3, 7, 15},      {0, 31},
       {0, 7, 15, 31, 63},    {0, 3, 15, 63},
       {1, 3, 7},             {3, 7},
       {0, 3, 15, 31},        {1, 3, 31},
       {0, 1, 3, 7, 15, 31},  {0, 1, 3, 7, 63},
       {0, 3, 7, 15, 63},     {0, 1, 15, 63},
       {1, 15, 63},           {7, 63},
       {1, 3, 15},            {1, 3, 31, 63},
       {0, 7, 15, 31, 63},    {7, 15, 63},
       {0, 31},               {3, 15, 31, 63} >>

-----------------------------------------------------------------------------
(* 64-bit lane arithmetic *)

Xor(a, b) == (a \ b) \cup (b \ a)

\* x << k for 0 <= k < 64: bits shifted past bit 63 are lost.
shl(x, k) == {i + k : i \in x} \cap Lane64

\* x >> k.  For k = 64 the shift is undefined in C; the builds either mask
\* the count to 6 bits (x >> 0) or shift every bit out (0).
shr(x, k) ==
    IF k = 64
    THEN (IF shr64 = "masked" THEN x ELSE {})
    ELSE {i - k : i \in x} \cap Lane64

rotl64(x, n) == shl(x, n) \cup shr(x, 64 - n)

idx(x, y) == y * 5 + x


-----------------------------------------------------------------------------
(* keccak_f1600 *)

\* theta: column parities C[x].
ThetaC(A) ==
    [x \in 0 .. 4 |->
        Xor(Xor(Xor(Xor(A[idx(x, 0)], A[idx(x, 1)]), A[idx(x, 2)]),
                A[idx(x, 3)]), A[idx(x, 4)])]

\* theta: D[x] = C[(x + 4) % 5] ^ rotl64(C[(x + 1) % 5], 1).
ThetaD(C) == [x \in 0 .. 4 |-> Xor(C[(x + 4) % 5], rotl64(C[(x + 1) % 5], 1))]

\* theta: state[idx(x, y)] ^= D[x].
Theta(A) ==
    Only({ [i \in 0 .. 24 |-> Xor(A[i], D[i % 5])] :
           D \in { Only({ ThetaD(C) : C \in {ThetaC(A)} }) } })

\* A rho/pi with the roles of x and y exchanged in the destination.
RhoPiDestExchanged(x, y) == idx(x, (2 * y + 3 * x) % 5)

\* A rho/pi that computes new_y from new_x instead of x.
RhoPiDestFromNewX(x, y) == idx(y, (2 * y + 3 * y) % 5)

\* rho/pi: the entry of B that the iteration (x, y) of the double loop writes.
RhoPiDest(x, y) == idx(y, (2 * x + 3 * y) % 5)

\* The iterations (x, y) that write B[d], each with its place 5x + y in the
\* order of the loop (x outer, y inner).
RhoPiWriters ==
    [d \in 0 .. 24 |->
        {<<5 * x + y, idx(x, y)>> : <<x, y>> \in
            {q \in (0 .. 4) \X (0 .. 4) : RhoPiDest(q[1], q[2]) = d}}]

\* A lane of the scratch array B that no iteration has written: B is an
\* uninitialised local, marked here by a bit outside 0..63.
Uninit == {64}

\* rho/pi: B after the double loop.  B[d] holds what the last iteration that
\* writes it stored, rotl64(state[idx(x, y)], keccak_rotations[idx(x, y)]).
RhoPi(T) ==
    [d \in 0 .. 24 |->
        IF RhoPiWriters[d] = {}
        THEN Uninit
        ELSE LET w == CHOOSE w \in RhoPiWriters[d] :
                          \A v \in RhoPiWriters[d] : v[1] <= w[1]
             IN rotl64(T[w[2]], keccak_rotations[w[2] + 1])]

\* chi: state[idx(x, y)] = B[idx(x, y)] ^ (~B[idx(x+1, y)] & B[idx(x+2, y)]).
Chi(B) ==
    [i \in 0 .. 24 |->
        Xor(B[i], (Lane64 \ B[idx(((i % 5) + 1) % 5, i \div 5)])
                      \cap B[idx(((i % 5) + 2) % 5, i \div 5)])]

\* iota: state[0] ^= keccak_round_constants[round].
Iota(A, round) == [A EXCEPT ![0] = Xor(@, keccak_round_constants[round + 1])]

\* One iteration of the round loop.
Round(A, round) ==
    Only({ Iota(ch, round) :
           ch \in { Chi(B) : B \in { RhoPi(T) : T \in {Theta(A)} } } })

RECURSIVE Rounds(_, _)
Rounds(A, round) ==
    IF round = KECCAK_ROUNDS
    THEN A
    ELSE Only({ Rounds(nxt, round + 1) : nxt \in {Round(A, round)} })

keccak_f1600(state) == Only({ Rounds(A, 0) : A \in {state} })

-----------------------------------------------------------------------------
(* The flat byte view of the state *)

\* The 1 bits of byte b, moved to byte o (0..7) of a lane.
ByteBits(b, o) == {8 * o + k : k \in {j \in 0 .. 7 : (b \div (2 ^ j)) % 2 = 1}}

\* state_bytes[p] ^= b
XorByte(state, p, b) ==
    [state EXCEPT ![p \div 8] = Xor(@, ByteBits(b, p % 8))]

\* state_bytes[p] = b
SetByte(state, p, b) ==
    [state EXCEPT ![p \div 8] =
        (@ \ {8 * (p % 8) + k : k \in 0 .. 7}) \cup ByteBits(b, p % 8)]

Bit(lane, i) == IF i \in lane THEN 1 ELSE 0

\* state_bytes[p]
GetByte(state, p) ==
    LET l == state[p \div 8]
        o == 8 * (p % 8)
    IN Bit(l, o) + 2 * Bit(l, o + 1) + 4 * Bit(l, o + 2) + 8 * Bit(l, o + 3)
       + 16 * Bit(l, o + 4) + 32 * Bit(l, o + 5) + 64 * Bit(l, o + 6)
       + 128 * Bit(l, o + 7)

-----------------------------------------------------------------------------
(* The sponge engine *)

Max(a, b) == IF a >= b THEN a ELSE b

\* The rate shake_init stores for a variant selector.
RateOf(shake_bits) ==
    IF shake_bits = 128 THEN SHAKE128_RATE
    ELSE IF shake_bits = 256 THEN SHAKE256_RATE
    ELSE SHAKE128_RATE

\* A shake_init without the memset: the lanes keep what the memory held.
shake_init_no_memset(mem, shake_bits) ==
    [mem EXCEPT !.rate = RateOf(shake_bits), !.absorb_pos = 0]

\* shake_init on the memory mem: memset to zero, then the rate and the cursor.
shake_init(mem, shake_bits) ==
    [state |-> [i \in 0 .. STATE_SIZE - 1 |-> {}],
     rate |-> RateOf(shake_bits),
     absorb_pos |-> 0]

\* What shake_init prints on stderr.
shake_init_stderr(shake_bits) ==
    IF shake_bits = 128 \/ shake_bits = 256 THEN "" ELSE "Invalid SHAKE variant"

\* The record a call works on: the context, and what the call has done so
\* far: perms, the number of keccak_f1600 applications; hi, the highest flat
\* byte index it has accessed (-1: none); out, the output bytes written.
Enter(c) == [ctx |-> c, perms |-> 0, hi |-> -1, out |-> << >>]

\* A loop body that leaves a full block unpermuted until the next byte comes,
\* as the loop of shake_squeeze does.
absorb_body_deferred(X, b) ==
    Only({ [X EXCEPT
              !.ctx = [c EXCEPT
                         !.state = XorByte(c.state, c.absorb_pos, b),
                         !.absorb_pos = @ + 1],
              !.perms = @ + (IF X.ctx.absorb_pos = X.ctx.rate THEN 1 ELSE 0),
              !.hi = Max(@, c.absorb_pos)] :
           c \in { IF X.ctx.absorb_pos = X.ctx.rate
                   THEN [X.ctx EXCEPT !.state = keccak_f1600(@), !.absorb_pos = 0]
                   ELSE X.ctx } })

\* A loop body that stores the input byte instead of XORing it.
absorb_body_store(X, b) ==
    LET c == X.ctx
    IN IF c.absorb_pos + 1 = c.rate
       THEN [X EXCEPT
               !.ctx = [c EXCEPT
                          !.state = keccak_f1600(SetByte(c.state, c.absorb_pos, b)),
                          !.absorb_pos = 0],
               !.perms = @ + 1,
               !.hi = Max(@, c.absorb_pos)]
       ELSE [X EXCEPT
               !.ctx = [c EXCEPT
                          !.state = SetByte(c.state, c.absorb_pos, b),
                          !.absorb_pos = @ + 1],
               !.hi = Max(@, c.absorb_pos)]

\* The body of the loop of shake_absorb for the input byte b.
absorb_body(X, b) ==
    LET c == X.ctx
    IN IF c.absorb_pos + 1 = c.rate
       THEN [X EXCEPT
               !.ctx = [c EXCEPT
                          !.state = keccak_f1600(XorByte(c.state, c.absorb_pos, b)),
                          !.absorb_pos = 0],
               !.perms = @ + 1,
               !.hi = Max(@, c.absorb_pos)]
       ELSE [X EXCEPT
               !.ctx = [c EXCEPT
                          !.state = XorByte(c.state, c.absorb_pos, b),
                          !.absorb_pos = @ + 1],
               !.hi = Max(@, c.absorb_pos)]

\* The iterations from < i <= to of the loop of shake_absorb, in order.
RECURSIVE absorb_loop(_, _, _, _)
absorb_loop(X, input, from, to) ==
    IF to = from THEN X
    ELSE IF to = from + 1 THEN absorb_body(X, input[to])
    ELSE Only({ absorb_loop(Y, input, (from + to) \div 2, to) :
                Y \in {absorb_loop(X, input, from, (from + to) \div 2)} })

\* A shake_absorb that starts every call at byte 0 of the block.
shake_absorb_rewind(c, input) ==
    Only({ absorb_loop(Enter([c EXCEPT !.absorb_pos = 0]), inp, 0, Len(inp)) :
           inp \in {input} })

shake_absorb(c, input) ==
    Only({ absorb_loop(Enter(c), inp, 0, Len(inp)) : inp \in {input} })

\* A shake_finalize that stores the two padding bytes instead of XORing them.
shake_finalize_store(c) ==
    [ctx |-> [c EXCEPT
                !.state = keccak_f1600(
                    SetByte(SetByte(c.state, c.absorb_pos, 31), c.rate - 1, 128)),
                !.absorb_pos = 0],
     perms |-> 1,
     hi |-> Max(c.absorb_pos, c.rate - 1),
     out |-> << >>]

shake_finalize(c) ==
    [ctx |-> [c EXCEPT
                !.state = keccak_f1600(
                    XorByte(XorByte(c.state, c.absorb_pos, 31), c.rate - 1, 128)),
                !.absorb_pos = 0],
     perms |-> 1,
     hi |-> Max(c.absorb_pos, c.rate - 1),
     out |-> << >>]

\* A refill that lets the cursor pass the last rate byte by one.
squeeze_refill_late(c) ==
    IF c.absorb_pos > c.rate
    THEN [c EXCEPT !.state = keccak_f1600(c.state), !.absorb_pos = 0]
    ELSE c

\* The head of the loop body of shake_squeeze: permute when the rate bytes
\* are used up.
squeeze_refill(c) ==
    IF c.absorb_pos = c.rate
    THEN [c EXCEPT !.state = keccak_f1600(c.state), !.absorb_pos = 0]
    ELSE c

\* A loop body that permutes as soon as the last byte of the block is read,
\* as the loop of shake_absorb does.
squeeze_body_eager(X) ==
    LET c == X.ctx
    IN IF c.absorb_pos + 1 = c.rate
       THEN [ctx |-> [c EXCEPT !.state = keccak_f1600(c.state), !.absorb_pos = 0],
             perms |-> X.perms + 1,
             hi |-> Max(X.hi, c.absorb_pos),
             out |-> Append(X.out, GetByte(c.state, c.absorb_pos))]
       ELSE [ctx |-> [c EXCEPT !.absorb_pos = @ + 1],
             perms |-> X.perms,
             hi |-> Max(X.hi, c.absorb_pos),
             out |-> Append(X.out, GetByte(c.state, c.absorb_pos))]

\* The body of the loop of shake_squeeze.
squeeze_body(X) ==
    Only({ [ctx |-> [c EXCEPT !.absorb_pos = @ + 1],
            perms |-> X.perms + (IF X.ctx.absorb_pos = X.ctx.rate THEN 1 ELSE 0),
            hi |-> Max(X.hi, c.absorb_pos),
            out |-> Append(X.out, GetByte(c.state, c.absorb_pos))] :
           c \in {squeeze_refill(X.ctx)} })

\* n iterations of the loop of shake_squeeze, in order.
RECURSIVE squeeze_loop(_, _)
squeeze_loop(X, n) ==
    IF n = 0 THEN X
    ELSE IF n = 1 THEN squeeze_body(X)
    ELSE Only({ squeeze_loop(Y, n - (n \div 2)) :
                Y \in {squeeze_loop(X, n \div 2)} })

\* A shake_squeeze that starts every call at byte 0 of the block.
shake_squeeze_rewind(c, outlen) ==
    squeeze_loop(Enter([c EXCEPT !.absorb_pos = 0]), outlen)

\* A shake_squeeze that fills the output buffer from its end.
shake_squeeze_from_end(c, outlen) ==
    Only({ [r EXCEPT !.out = [k \in 1 .. Len(r.out) |-> r.out[Len(r.out) + 1 - k]]] :
           r \in {squeeze_loop(Enter(c), outlen)} })

shake_squeeze(c, outlen) == squeeze_loop(Enter(c), outlen)

-----------------------------------------------------------------------------
(* The one-shot calls *)

\* What a one-shot call leaves: the local context when it returns, the
\* context as shake_finalize left it, the bytes written to output, and the
\* totals of its three calls.
Returned(a, f, s) ==
    [ctx |-> s.ctx,
     fin |-> f.ctx,
     perms |-> a.perms + f.perms + s.perms,
     hi |-> Max(a.hi, Max(f.hi, s.hi)),
     out |-> s.out]

\* shake128 with its local keccak_state ctx in the stack memory mem.
shake128(mem, input, outlen) ==
    Only({ Only({ Only({ Returned(a, f, s) :
                         s \in {shake_squeeze(f.ctx, outlen)} }) :
                  f \in {shake_finalize(a.ctx)} }) :
           a \in {shake_absorb(shake_init(mem, 128), input)} })

shake256(mem, input, outlen) ==
    Only({ Only({ Only({ Returned(a, f, s) :
                         s \in {shake_squeeze(f.ctx, outlen)} }) :
                  f \in {shake_finalize(a.ctx)} }) :
           a \in {shake_absorb(shake_init(mem, 256), input)} })

-----------------------------------------------------------------------------
(* Inputs and bounds *)

\* Calls made on one context after shake_init.
MaxCalls == 3

\* One-shot calls made in one run of the program.
MaxRuns == 2

\* The variant selectors passed to shake_init: the two variants and another.
Selectors == {128, 256, 512}

\* The messages that the absorb calls feed in pieces: zero bytes only, and
\* bytes that differ from place to place.
MsgKinds == {"zeros", "mixed"}

\* The i-th byte (from 1) of the message m.
MsgByte(m, i) == IF m = "zeros" THEN 0 ELSE (37 * i + 11) % 256

\* The piece of len bytes of the message m that follows its first from bytes.
Input(m, from, len) == [k \in 1 .. len |-> MsgByte(m, from + k)]

\* The lengths of one shake_absorb call and of one shake_squeeze call.
AbsorbLens(rate) == {0, 1, rate - 1, rate}
SqueezeLens(rate) == {0, 1, rate}

\* Size in bytes of ctx->state: an access at a flat index beyond it leaves the
\* array, and is kept out of the model.
StateBytes == 8 * STATE_SIZE

\* Memory that has never held a context: what a local keccak_state is before
\* shake_init.
Dirty ==
    [state |-> [i \in 0 .. STATE_SIZE - 1 |-> IF i % 2 = 0 THEN {0, 7, 63} ELSE {i}],
     rate |-> 7,
     absorb_pos |-> 99]

-----------------------------------------------------------------------------
(* The key-generation arithmetic of Dilithium_key_gen.c *)

Q == 8380417
N == 256
D == 13
ETA == 2

\* An int64_t value is kept as its sign and its magnitude, the magnitude in
\* three limbs of 24 bits, least significant first; the third limb has room
\* above bit 63, so that a result that leaves the int64_t range is still the
\* exact number and can be told from one that fits.
Limb == 2 ^ 24

Abs(v) == IF v < 0 THEN -v ELSE v

\* (int64_t)v for an int32_t v.
I64(v) == [neg |-> v < 0, mag |-> <<Abs(v) % Limb, Abs(v) \div Limb, 0>>]

\* The int64_t values from INT64_MIN to INT64_MAX.
Fits64(a) == a.mag[3] < 2 ^ 15 \/ (a.neg /\ a.mag = <<0, 0, 2 ^ 15>>)

\* (int64_t)a * b for int32_t a and b below 2^24 in magnitude, by 12-bit
\* halves.
Mul64(a, b) ==
    LET a0 == Abs(a) % 4096
        a1 == Abs(a) \div 4096
        b0 == Abs(b) % 4096
        b1 == Abs(b) \div 4096
        mid == a1 * b0 + a0 * b1
        low == (mid % 4096) * 4096 + a0 * b0
        high == a1 * b1 + (mid \div 4096) + (low \div Limb)
    IN [neg |-> a # 0 /\ b # 0 /\ ((a < 0) # (b < 0)),
        mag |-> <<low % Limb, high % Limb, high \div Limb>>]

\* -a
Neg64(a) == [a EXCEPT !.neg = (a.mag # <<0, 0, 0>>) /\ ~a.neg]

MagLess(m, n) ==
    \/ m[3] < n[3]
    \/ m[3] = n[3] /\ m[2] < n[2]
    \/ m[3] = n[3] /\ m[2] = n[2] /\ m[1] < n[1]

MagAdd(m, n) ==
    LET s1 == m[1] + n[1]
        s2 == m[2] + n[2] + (s1 \div Limb)
    IN <<s1 % Limb, s2 % Limb, m[3] + n[3] + (s2 \div Limb)>>

\* m - n for n <= m.
MagSub(m, n) ==
    LET d1 == m[1] - n[1]
        d2 == m[2] - n[2] - (IF d1 < 0 THEN 1 ELSE 0)
    IN <<(d1 + Limb) % Limb, (d2 + Limb) % Limb,
         m[3] - n[3] - (IF d2 < 0 THEN 1 ELSE 0)>>

\* a + b
Add64(a, b) ==
    IF a.neg = b.neg THEN [neg |-> a.neg, mag |-> MagAdd(a.mag, b.mag)]
    ELSE IF a.mag = b.mag THEN [neg |-> FALSE, mag |-> <<0, 0, 0>>]
    ELSE IF MagLess(a.mag, b.mag) THEN [neg |-> b.neg, mag |-> MagSub(b.mag, a.mag)]
    ELSE [neg |-> a.neg, mag |-> MagSub(a.mag, b.mag)]

\* (r * 2^24 + l) mod q, a byte of l at a time.
ModStep(r, l, q) ==
    (((((r * 256 + ((l \div 65536) % 256)) % q) * 256
        + ((l \div 256) % 256)) % q) * 256 + (l % 256)) % q

\* The magnitude m modulo q, for 256 * q below 2^31.
MagMod(m, q) ==
    ModStep(ModStep(ModStep((m[3] \div Limb) % q, m[3] % Limb, q), m[2], q), m[1], q)

\* a % q of C for q > 0: the quotient is truncated, so the result has the
\* sign of a.
Rem64(a, q) == IF a.neg THEN -MagMod(a.mag, q) ELSE MagMod(a.mag, q)

\* A reduce_mod_q without the correction of a negative remainder.
reduce_mod_q_truncated(a) == Rem64(a, Q)

reduce_mod_q(a) ==
    LET result == Rem64(a, Q)
    IN IF result < 0 THEN result + Q ELSE result

\* An int32_t in two's complement: the set of the positions of its 1 bits.
Bits32(v) ==
    IF v >= 0
    THEN {k \in 0 .. 30 : (v \div (2 ^ k)) % 2 = 1}
    ELSE {31} \cup {k \in 0 .. 30 : ((-v - 1) \div (2 ^ k)) % 2 = 0}

RECURSIVE Weigh(_, _)
Weigh(bits, k) ==
    IF k > 30 THEN 0
    ELSE (IF k \in bits THEN 2 ^ k ELSE 0) + Weigh(bits, k + 1)

\* The int32_t that has the 1 bits at the positions in bits.
Int32(bits) ==
    IF 31 \in bits THEN (Weigh(bits, 0) - 2 ^ 30) - 2 ^ 30 ELSE Weigh(bits, 0)

\* a & b on int32_t
And32(a, b) == Int32(Bits32(a) \cap Bits32(b))

\* a << n on int32_t, for a result that fits
Shl32(a, n) == Int32({k + n : k \in Bits32(a)} \cap (0 .. 31))

\* a >> n on int32_t, the sign bit filling in from the left
Shr32(a, n) ==
    Int32(({k - n : k \in Bits32(a)} \cap (0 .. 31))
          \cup (IF a < 0 THEN (32 - n) .. 31 ELSE {}))

\* The polynomial with all coefficients zero, as poly_zero leaves it.
poly_zero == [k \in 0 .. N - 1 |-> 0]

\* The loop of poly_add.  fits tells that the int64_t sums fit their type.
poly_add(a, b) ==
    [coeffs |-> [i \in 0 .. N - 1 |-> reduce_mod_q(Add64(I64(a[i]), I64(b[i])))],
     fits |-> \A i \in 0 .. N - 1 : Fits64(Add64(I64(a[i]), I64(b[i])))]

\* The body of the inner loop of poly_multiply, on r = X.coeffs.
multiply_body(X, a, b, i, j) ==
    LET wrap == i + j >= N
        k == IF wrap THEN i + j - N ELSE i + j
    IN Only({ Only({ [coeffs |-> [X.coeffs EXCEPT ![k] = reduce_mod_q(sum)],
                      fits |-> X.fits /\ Fits64(product) /\ Fits64(sum)] :
                     sum \in {Add64(I64(X.coeffs[k]), product)} }) :
              product \in {IF wrap THEN Neg64(Mul64(a[i], b[j]))
                           ELSE Mul64(a[i], b[j])} })

\* The iterations from <= j < to of the inner loop, in order.
RECURSIVE multiply_inner(_, _, _, _, _, _)
multiply_inner(X, a, b, i, from, to) ==
    IF to = from THEN X
    ELSE IF to = from + 1 THEN multiply_body(X, a, b, i, from)
    ELSE Only({ multiply_inner(Y, a, b, i, (from + to) \div 2, to) :
                Y \in {multiply_inner(X, a, b, i, from, (from + to) \div 2)} })

\* A poly_power2round whose mask is 1 << D.
poly_power2round_mask(t) ==
    LET mask == Shl32(1, D)
        low == [i \in 0 .. N - 1 |-> And32(t[i], mask)]
    IN [t0 |-> low,
        t1 |-> [i \in 0 .. N - 1 |-> Shr32(t[i] - low[i], D)]]

\* The loop of poly_power2round.
poly_power2round(t) ==
    LET mask == Shl32(1, D) - 1
        low == [i \in 0 .. N - 1 |-> And32(t[i], mask)]
    IN [t0 |-> low,
        t1 |-> [i \in 0 .. N - 1 |-> Shr32(t[i] - low[i], D)]]


\* The polynomials that the arithmetic is run on, by the kind of their
\* coefficients: the largest and the smallest value of the open range
\* (-Q, Q), values spread over it, the values of sample_small_poly in
\* -ETA .. ETA, values at the edges of the low D bits and of 0 .. Q - 1, and
\* zero.
PolyKinds == {"top", "bottom", "spread", "small", "edges", "zero"}

Edges == <<0, 1, 2 ^ D - 1, 2 ^ D, 2 ^ D + 1, 2 ^ (D + 1) - 1, Q - 2, Q - 1>>

Coeffs(kind) ==
    [i \in 0 .. N - 1 |->
        CASE kind = "top" -> Q - 1
          [] kind = "bottom" -> 1 - Q
          [] kind = "spread" -> ((i * 65537 + 12345) % (2 * Q - 1)) - (Q - 1)
          [] kind = "small" -> ((3 * i + 1) % (2 * ETA + 1)) - ETA
          [] kind = "edges" -> Edges[(i % 8) + 1]
          [] OTHER -> 0]

\* The arithmetic when none is in progress: pc, the function that runs next;
\* a, b, c, the kinds of the operands; r, the product under construction and
\* i, the counter of the outer loop of poly_multiply; t, the sum that
\* poly_add left; t1 and t0, what poly_power2round left; fits, whether every
\* int64_t sum and product so far fits its type; arg and result, the
\* argument and the return value of a reduce_mod_q call.
KgIdle ==
    [pc |-> "idle", a |-> "zero", b |-> "zero", c |-> "zero",
     r |-> poly_zero, i |-> 0, t |-> poly_zero, t1 |-> poly_zero,
     t0 |-> poly_zero, fits |-> TRUE, arg |-> I64(0), result |-> 0]

-----------------------------------------------------------------------------
(* Values of the locals outside a call *)

\* No rotl64 call made, no iteration run.
NoCall == -1

\* The locals of keccak_f1600 when no call of it is followed loop by loop:
\* pc, the loop that runs next; round, x, y, the loop counters; state, the
\* lanes it works on; B, the scratch array; T, the lanes as theta left them in
\* this round; writes, how many times each entry of B was stored to in this
\* round; n, the amount passed by the last rotl64 call; src, the index of the
\* lane that the last rho/pi iteration rotated.
KfIdle ==
    [pc |-> "idle", round |-> 0, x |-> 0, y |-> 0,
     state |-> [i \in 0 .. STATE_SIZE - 1 |-> {}],
     B |-> [i \in 0 .. STATE_SIZE - 1 |-> Uninit],
     T |-> [i \in 0 .. STATE_SIZE - 1 |-> {}],
     writes |-> [i \in 0 .. STATE_SIZE - 1 |-> 0],
     n |-> NoCall, src |-> NoCall]

\* The one-shot call in progress when none is followed call by call: pc, the
\* statement that runs next; bits, the variant of the function called
\* (shake128 or shake256); input and outlen, its arguments; trace, the calls
\* it has made on its local context.
XofIdle ==
    [pc |-> "idle", bits |-> 0, input |-> << >>, outlen |-> 0, trace |-> << >>]

\* fin before the first shake_finalize.
NoFin == [state |-> [i \in 0 .. STATE_SIZE - 1 |-> {}], rate |-> 0, absorb_pos |-> 0]

\* The message absorbed so far, absorbed by one shake_absorb call on a fresh
\* context of the variant of ctx.
OneAbsorb ==
    shake_absorb(shake_init(Dirty, IF ctx.rate = SHAKE256_RATE THEN 256 ELSE 128),
                 Input(msg, 0, inlen))

-----------------------------------------------------------------------------
(* The sponge engine driven call by call *)

Called(op, arg) == [op |-> op, arg |-> arg]

Init ==
    /\ shr64 \in {"masked", "zero"}
    /\ \E bits \in Selectors :
          /\ ctx = shake_init(Dirty, bits)
          /\ last = Called("shake_init", bits)
          /\ diag = shake_init_stderr(bits)
    /\ phase = "absorbing"
    /\ wf = TRUE
    /\ calls = 0
    /\ msg \in MsgKinds
    /\ inlen = 0
    /\ fin = NoFin
    /\ out = << >>
    /\ perms = 0
    /\ hi = -1
    /\ runs = << >>
    /\ kf = KfIdle
    /\ xof = XofIdle
    /\ kg = KgIdle

ShakeInit(bits) ==
    /\ ctx' = shake_init(ctx, bits)
    /\ last' = Called("shake_init", bits)
    /\ diag' = shake_init_stderr(bits)
    /\ phase' = "absorbing"
    /\ wf' = TRUE
    /\ calls' = 0
    /\ msg' \in MsgKinds
    /\ inlen' = 0
    /\ fin' = NoFin
    /\ out' = << >>
    /\ perms' = 0
    /\ hi' = -1
    /\ UNCHANGED <<shr64, runs, kf, xof, kg>>

\* Only the first call that leaves the protocol is followed: after it the
\* context is given to shake_init alone.
ShakeAbsorb(len) ==
    /\ wf
    /\ calls < MaxCalls
    /\ ctx.absorb_pos < ctx.rate \/ ctx.absorb_pos + len <= StateBytes
    /\ \E r \in {shake_absorb(ctx, Input(msg, inlen, len))} :
          /\ ctx' = r.ctx
          /\ perms' = perms + r.perms
          /\ hi' = Max(hi, r.hi)
    /\ last' = Called("shake_absorb", len)
    /\ diag' = ""
    /\ wf' = (phase = "absorbing")
    /\ calls' = calls + 1
    /\ inlen' = inlen + len
    /\ UNCHANGED <<shr64, phase, msg, fin, out, runs, kf, xof, kg>>

ShakeFinalize ==
    /\ wf
    /\ calls < MaxCalls
    /\ \E r \in {shake_finalize(ctx)} :
          /\ ctx' = r.ctx
          /\ perms' = perms + r.perms
          /\ hi' = Max(hi, r.hi)
          /\ fin' = IF phase = "absorbing" THEN r.ctx ELSE fin
    /\ last' = Called("shake_finalize", 0)
    /\ diag' = ""
    /\ phase' = "squeezing"
    /\ wf' = (phase = "absorbing")
    /\ calls' = calls + 1
    /\ UNCHANGED <<shr64, msg, inlen, out, runs, kf, xof, kg>>

ShakeSqueeze(outlen) ==
    /\ wf
    /\ calls < MaxCalls
    /\ ctx.absorb_pos <= ctx.rate \/ ctx.absorb_pos + outlen <= StateBytes
    /\ \E r \in {shake_squeeze(ctx, outlen)} :
          /\ ctx' = r.ctx
          /\ perms' = perms + r.perms
          /\ hi' = Max(hi, r.hi)
          /\ out' = out \o r.out
    /\ last' = Called("shake_squeeze", outlen)
    /\ diag' = ""
    /\ wf' = (phase = "squeezing")
    /\ calls' = calls + 1
    /\ UNCHANGED <<shr64, phase, msg, inlen, fin, runs, kf, xof, kg>>

Next ==
    \/ \E bits \in Selectors : ShakeInit(bits)
    \/ \E len \in AbsorbLens(ctx.rate) : ShakeAbsorb(len)
    \/ ShakeFinalize
    \/ \E outlen \in SqueezeLens(ctx.rate) : ShakeSqueeze(outlen)

Spec == Init /\ [][Next]_vars

-----------------------------------------------------------------------------
(* The one-shot calls, as main makes them one after another *)

\* "Hello, Dilithium!", the message of main.
Hello == <<72, 101, 108, 108, 111, 44, 32, 68, 105, 108, 105, 116, 104, 105,
           117, 109, 33>>

Messages == {<< >>, Hello}

\* Output lengths: the 32 bytes of the published test vectors, and the 256
\* bytes of main's extendable-output demo, which take a second output block.
OutLens == {32, 256}

InitXof ==
    /\ shr64 \in {"masked", "zero"}
    /\ ctx = Dirty
    /\ last = Called("main", 0)
    /\ diag = ""
    /\ phase = "absorbing"
    /\ wf = TRUE
    /\ calls = 0
    /\ msg = "mixed"
    /\ inlen = 0
    /\ fin = NoFin
    /\ out = << >>
    /\ perms = 0
    /\ hi = -1
    /\ runs = << >>
    /\ kf = KfIdle
    /\ xof = XofIdle
    /\ kg = KgIdle

\* The effect of a one-shot call that returned r, its local context having
\* been placed in the memory mem.  ctx is that memory after the call.
OneShot(bits, mem, input, outlen, r) ==
    /\ ctx' = r.ctx
    /\ fin' = r.fin
    /\ out' = r.out
    /\ perms' = r.perms
    /\ hi' = r.hi
    /\ runs' = Append(runs, [bits |-> bits, mem |-> mem, input |-> input,
                             outlen |-> outlen, output |-> r.out])
    /\ last' = Called(IF bits = 128 THEN "shake128" ELSE "shake256", outlen)
    /\ diag' = ""
    /\ phase' = "squeezing"
    /\ wf' = TRUE
    /\ calls' = 3
    /\ inlen' = Len(input)
    /\ UNCHANGED <<shr64, msg, kf, xof, kg>>

\* The local ctx lies where the previous call's did, or in memory that other
\* calls have written since.
Shake128(input, outlen) ==
    /\ Len(runs) < MaxRuns
    /\ \E mem \in {ctx, Dirty} :
          \E r \in {shake128(mem, input, outlen)} :
             OneShot(128, mem, input, outlen, r)

Shake256(input, outlen) ==
    /\ Len(runs) < MaxRuns
    /\ \E mem \in {ctx, Dirty} :
          \E r \in {shake256(mem, input, outlen)} :
             OneShot(256, mem, input, outlen, r)

NextXof ==
    \/ \E input \in Messages, outlen \in OutLens : Shake128(input, outlen)
    \/ \E input \in Messages, outlen \in OutLens : Shake256(input, outlen)

SpecXof == InitXof /\ [][NextXof]_vars

-----------------------------------------------------------------------------
(* keccak_f1600 loop by loop, as shake_finalize calls it after one input byte *)

InitKeccak ==
    /\ shr64 \in {"masked", "zero"}
    /\ msg \in MsgKinds
    /\ \E bits \in {128, 256} :
          ctx = shake_absorb(shake_init(Dirty, bits), Input(msg, 0, 1)).ctx
    /\ last = Called("shake_absorb", 1)
    /\ diag = ""
    /\ phase = "absorbing"
    /\ wf = TRUE
    /\ calls = 1
    /\ inlen = 1
    /\ fin = NoFin
    /\ out = << >>
    /\ perms = 0
    /\ hi = -1
    /\ runs = << >>
    /\ kf = KfIdle
    /\ xof = XofIdle
    /\ kg = KgIdle

\* shake_finalize XORs the two padding bytes and calls keccak_f1600.
KfCall ==
    /\ kf.pc = "idle"
    /\ phase = "absorbing"
    /\ kf' = [KfIdle EXCEPT
                !.pc = "theta",
                !.state = XorByte(XorByte(ctx.state, ctx.absorb_pos, 31),
                                  ctx.rate - 1, 128)]
    /\ last' = Called("shake_finalize", 0)
    /\ hi' = Max(hi, Max(ctx.absorb_pos, ctx.rate - 1))
    /\ calls' = calls + 1
    /\ UNCHANGED <<ctx, shr64, diag, phase, wf, msg, inlen, fin, out, perms, runs,
                   xof, kg>>

\* The three loops of theta.  Each D[x] takes one rotl64 call with n = 1.
KfTheta ==
    /\ kf.pc = "theta"
    /\ \E t \in {Theta(kf.state)} :
          kf' = [kf EXCEPT
                   !.pc = "rhopi", !.x = 0, !.y = 0,
                   !.state = t, !.T = t,
                   !.writes = [i \in 0 .. STATE_SIZE - 1 |-> 0],
                   !.n = 1, !.src = NoCall]
    /\ UNCHANGED <<ctx, shr64, last, diag, phase, wf, calls, msg, inlen, fin,
                   out, perms, hi, runs, xof, kg>>

\* One iteration (x, y) of the double loop of rho/pi.
KfRhoPi ==
    /\ kf.pc = "rhopi"
    /\ kf' = [kf EXCEPT
                !.B[RhoPiDest(kf.x, kf.y)] =
                    rotl64(kf.state[idx(kf.x, kf.y)],
                           keccak_rotations[idx(kf.x, kf.y) + 1]),
                !.writes[RhoPiDest(kf.x, kf.y)] = @ + 1,
                !.n = keccak_rotations[idx(kf.x, kf.y) + 1],
                !.src = idx(kf.x, kf.y),
                !.y = IF kf.y < 4 THEN kf.y + 1 ELSE 0,
                !.x = IF kf.y < 4 THEN kf.x ELSE IF kf.x < 4 THEN kf.x + 1 ELSE 0,
                !.pc = IF kf.x = 4 /\ kf.y = 4 THEN "chi" ELSE "rhopi"]
    /\ UNCHANGED <<ctx, shr64, last, diag, phase, wf, calls, msg, inlen, fin,
                   out, perms, hi, runs, xof, kg>>

\* The double loop of chi.
KfChi ==
    /\ kf.pc = "chi"
    /\ kf' = [kf EXCEPT !.pc = "iota", !.state = Chi(kf.B)]
    /\ UNCHANGED <<ctx, shr64, last, diag, phase, wf, calls, msg, inlen, fin,
                   out, perms, hi, runs, xof, kg>>

\* iota, and the step of the round loop.
KfIota ==
    /\ kf.pc = "iota"
    /\ kf' = [kf EXCEPT
                !.state = Iota(kf.state, kf.round),
                !.round = @ + 1,
                !.pc = IF kf.round + 1 < KECCAK_ROUNDS THEN "theta" ELSE "return"]
    /\ UNCHANGED <<ctx, shr64, last, diag, phase, wf, calls, msg, inlen, fin,
                   out, perms, hi, runs, xof, kg>>

\* keccak_f1600 returns and shake_finalize resets the cursor.
KfReturn ==
    /\ kf.pc = "return"
    /\ kf' = [kf EXCEPT !.pc = "idle"]
    /\ ctx' = [ctx EXCEPT !.state = kf.state, !.absorb_pos = 0]
    /\ fin' = ctx'
    /\ perms' = perms + 1
    /\ phase' = "squeezing"
    /\ UNCHANGED <<shr64, last, diag, wf, calls, msg, inlen, out, hi, runs, xof, kg>>

NextKeccak ==
    \/ KfCall
    \/ KfTheta
    \/ KfRhoPi
    \/ KfChi
    \/ KfIota
    \/ KfReturn

SpecKeccak == InitKeccak /\ [][NextKeccak]_vars

\* The loops compute what keccak_f1600 computes.
KfAgrees ==
    (kf.pc = "idle" /\ phase = "squeezing") => ctx = shake_finalize(OneAbsorb.ctx).ctx

-----------------------------------------------------------------------------
(* One one-shot call, followed call by call *)

\* The inputs of the call: no byte, main's message, and one SHAKE-128 block.
XofMessages == Messages \cup {Input("mixed", 0, SHAKE128_RATE)}

\* The output lengths of the call: none, 32 bytes, and more than one block.
XofOutLens == {0} \cup OutLens

InitOneShot ==
    /\ shr64 \in {"masked", "zero"}
    /\ ctx = Dirty
    /\ last = Called("main", 0)
    /\ diag = ""
    /\ phase = "absorbing"
    /\ wf = TRUE
    /\ calls = 0
    /\ msg = "mixed"
    /\ inlen = 0
    /\ fin = NoFin
    /\ out = << >>
    /\ perms = 0
    /\ hi = -1
    /\ runs = << >>
    /\ kf = KfIdle
    /\ xof = XofIdle
    /\ kg = KgIdle

\* shake128 or shake256 is entered: its local ctx is memory of the stack.
XofEnter(bits, input, outlen) ==
    /\ xof.pc = "idle"
    /\ runs = << >>
    /\ xof' = [pc |-> "shake_init", bits |-> bits, input |-> input,
               outlen |-> outlen, trace |-> << >>]
    /\ last' = Called(IF bits = 128 THEN "shake128" ELSE "shake256", outlen)
    /\ UNCHANGED <<ctx, shr64, diag, phase, wf, calls, msg, inlen, fin, out,
                   perms, hi, runs, kf, kg>>

Shake128Enter(input, outlen) == XofEnter(128, input, outlen)

Shake256Enter(input, outlen) == XofEnter(256, input, outlen)

\* shake_init(&ctx, 128) in shake128, shake_init(&ctx, 256) in shake256.
XofInit ==
    /\ xof.pc = "shake_init"
    /\ ctx' = shake_init(ctx, xof.bits)
    /\ diag' = shake_init_stderr(xof.bits)
    /\ last' = Called("shake_init", xof.bits)
    /\ xof' = [xof EXCEPT !.pc = "shake_absorb",
                          !.trace = Append(@, Called("shake_init", xof.bits))]
    /\ UNCHANGED <<shr64, phase, wf, calls, msg, inlen, fin, out, perms, hi,
                   runs, kf, kg>>

\* A one-shot call that returns after shake_absorb when no output is asked for.
XofAbsorbReturnsEarly ==
    /\ xof.pc = "shake_absorb"
    /\ \E r \in {shake_absorb(ctx, xof.input)} :
          /\ ctx' = r.ctx
          /\ perms' = perms + r.perms
          /\ hi' = Max(hi, r.hi)
    /\ inlen' = Len(xof.input)
    /\ calls' = calls + 1
    /\ last' = Called("shake_absorb", Len(xof.input))
    /\ xof' = [xof EXCEPT
                 !.pc = IF xof.outlen = 0 THEN "return" ELSE "shake_finalize",
                 !.trace = Append(@, Called("shake_absorb", Len(xof.input)))]
    /\ UNCHANGED <<shr64, diag, phase, wf, msg, fin, out, runs, kf, kg>>

\* shake_absorb(&ctx, input, inlen)
XofAbsorb ==
    /\ xof.pc = "shake_absorb"
    /\ \E r \in {shake_absorb(ctx, xof.input)} :
          /\ ctx' = r.ctx
          /\ perms' = perms + r.perms
          /\ hi' = Max(hi, r.hi)
    /\ inlen' = Len(xof.input)
    /\ calls' = calls + 1
    /\ last' = Called("shake_absorb", Len(xof.input))
    /\ xof' = [xof EXCEPT !.pc = "shake_finalize",
                          !.trace = Append(@, Called("shake_absorb", Len(xof.input)))]
    /\ UNCHANGED <<shr64, diag, phase, wf, msg, fin, out, runs, kf, kg>>

\* shake_finalize(&ctx)
XofFinalize ==
    /\ xof.pc = "shake_finalize"
    /\ \E r \in {shake_finalize(ctx)} :
          /\ ctx' = r.ctx
          /\ fin' = r.ctx
          /\ perms' = perms + r.perms
          /\ hi' = Max(hi, r.hi)
    /\ phase' = "squeezing"
    /\ calls' = calls + 1
    /\ last' = Called("shake_finalize", 0)
    /\ xof' = [xof EXCEPT !.pc = "shake_squeeze",
                          !.trace = Append(@, Called("shake_finalize", 0))]
    /\ UNCHANGED <<shr64, diag, wf, msg, inlen, out, runs, kf, kg>>

\* shake_squeeze(&ctx, output, outlen)
XofSqueeze ==
    /\ xof.pc = "shake_squeeze"
    /\ \E r \in {shake_squeeze(ctx, xof.outlen)} :
          /\ ctx' = r.ctx
          /\ out' = out \o r.out
          /\ perms' = perms + r.perms
          /\ hi' = Max(hi, r.hi)
    /\ calls' = calls + 1
    /\ last' = Called("shake_squeeze", xof.outlen)
    /\ xof' = [xof EXCEPT !.pc = "return",
                          !.trace = Append(@, Called("shake_squeeze", xof.outlen))]
    /\ UNCHANGED <<shr64, diag, phase, wf, msg, inlen, fin, runs, kf, kg>>

\* The one-shot call returns: output holds the bytes written.
XofReturn ==
    /\ xof.pc = "return"
    /\ runs' = Append(runs, [bits |-> xof.bits, mem |-> Dirty, input |-> xof.input,
                             outlen |-> xof.outlen, output |-> out])
    /\ xof' = [xof EXCEPT !.pc = "idle"]
    /\ UNCHANGED <<ctx, shr64, last, diag, phase, wf, calls, msg, inlen, fin,
                   out, perms, hi, kf, kg>>

NextOneShot ==
    \/ \E input \in XofMessages, outlen \in XofOutLens : Shake128Enter(input, outlen)
    \/ \E input \in XofMessages, outlen \in XofOutLens : Shake256Enter(input, outlen)
    \/ XofInit
    \/ XofAbsorb
    \/ XofFinalize
    \/ XofSqueeze
    \/ XofReturn

SpecOneShot == InitOneShot /\ [][NextOneShot]_vars

\* Followed call by call, the one-shot call writes what shake128 and shake256
\* return.
XofAgrees ==
    (xof.pc = "idle" /\ runs # << >>)
        => \E r \in {IF xof.bits = 128
                     THEN shake128(Dirty, xof.input, xof.outlen)
                     ELSE shake256(Dirty, xof.input, xof.outlen)} :
              /\ r.out = runs[1].output
              /\ r.ctx = ctx
              /\ r.fin = fin
              /\ r.perms = perms
              /\ r.hi = hi

-----------------------------------------------------------------------------
(* The key-generation arithmetic, as dilithium_keygen chains it *)

\* int64_t arguments for reduce_mod_q: the ends of the type, the values
\* around 0 and around the multiples of Q that the sums reach, and the
\* products and sums of largest magnitude that poly_multiply forms.
Int64Samples ==
    <<[neg |-> TRUE, mag |-> <<0, 0, 2 ^ 15>>],
      [neg |-> FALSE, mag |-> <<Limb - 1, Limb - 1, 2 ^ 15 - 1>>],
      I64(-1), I64(0), I64(1), I64(Q - 1), I64(Q), I64(Q + 1),
      I64(1 - Q), I64(-Q), I64(-Q - 1), I64(2 * Q - 2), I64(2 - 2 * Q),
      Mul64(Q - 1, Q - 1), Mul64(Q - 1, 1 - Q),
      Add64(I64(Q - 1), Mul64(Q - 1, Q - 1)),
      Add64(I64(Q - 1), Mul64(Q - 1, 1 - Q))>>

\* The pairs of operands that poly_multiply is run on.
MultiplyPairs == {<<"top", "bottom">>, <<"spread", "small">>, <<"edges", "top">>}

InitKeygen ==
    /\ shr64 = "masked"
    /\ ctx = Dirty
    /\ last = Called("main", 0)
    /\ diag = ""
    /\ phase = "absorbing"
    /\ wf = TRUE
    /\ calls = 0
    /\ msg = "mixed"
    /\ inlen = 0
    /\ fin = NoFin
    /\ out = << >>
    /\ perms = 0
    /\ hi = -1
    /\ runs = << >>
    /\ kf = KfIdle
    /\ xof = XofIdle
    /\ kg = [KgIdle EXCEPT !.pc = "start"]

\* reduce_mod_q(a) on the s-th sample.
ReduceModQ(s) ==
    /\ kg.pc = "start"
    /\ kg' = [kg EXCEPT !.pc = "reduced",
                        !.arg = Int64Samples[s],
                        !.result = reduce_mod_q(Int64Samples[s])]
    /\ last' = Called("reduce_mod_q", s)
    /\ UNCHANGED <<ctx, shr64, diag, phase, wf, calls, msg, inlen, fin, out,
                   perms, hi, runs, kf, xof>>

\* poly_multiply(&temp, a, b) up to its outer loop: poly_zero(r).
PolyMultiplyEnter(a, b) ==
    /\ kg.pc = "start"
    /\ kg' = [kg EXCEPT !.pc = "poly_multiply", !.a = a, !.b = b,
                        !.r = poly_zero, !.i = 0]
    /\ last' = Called("poly_multiply", 0)
    /\ UNCHANGED <<ctx, shr64, diag, phase, wf, calls, msg, inlen, fin, out,
                   perms, hi, runs, kf, xof>>

\* One iteration of the outer loop of poly_multiply: the inner loop over j.
PolyMultiplyRow ==
    /\ kg.pc = "poly_multiply"
    /\ kg.i < N
    /\ \E X \in {multiply_inner([coeffs |-> kg.r, fits |-> kg.fits],
                                Coeffs(kg.a), Coeffs(kg.b), kg.i, 0, N)} :
          kg' = [kg EXCEPT !.r = X.coeffs, !.fits = X.fits, !.i = @ + 1,
                           !.pc = IF kg.i + 1 = N THEN "poly_add"
                                  ELSE "poly_multiply"]
    /\ UNCHANGED <<ctx, shr64, last, diag, phase, wf, calls, msg, inlen, fin,
                   out, perms, hi, runs, kf, xof>>

\* poly_add(&t, &t, c) on the product.
PolyAdd(c) ==
    /\ kg.pc = "poly_add"
    /\ \E S \in {poly_add(kg.r, Coeffs(c))} :
          kg' = [kg EXCEPT !.pc = "poly_power2round", !.c = c,
                           !.t = S.coeffs, !.fits = kg.fits /\ S.fits]
    /\ last' = Called("poly_add", 0)
    /\ UNCHANGED <<ctx, shr64, diag, phase, wf, calls, msg, inlen, fin, out,
                   perms, hi, runs, kf, xof>>

\* poly_add(&t, a, c) on two operands with coefficients in (-Q, Q).
PolyAddOf(a, c) ==
    /\ kg.pc = "start"
    /\ \E S \in {poly_add(Coeffs(a), Coeffs(c))} :
          kg' = [kg EXCEPT !.pc = "poly_power2round", !.a = a, !.c = c,
                           !.r = Coeffs(a),
                           !.t = S.coeffs, !.fits = kg.fits /\ S.fits]
    /\ last' = Called("poly_add", 1)
    /\ UNCHANGED <<ctx, shr64, diag, phase, wf, calls, msg, inlen, fin, out,
                   perms, hi, runs, kf, xof>>

\* poly_power2round(&t1, &t0, &t)
PolyPower2Round ==
    /\ kg.pc = "poly_power2round"
    /\ \E S \in {poly_power2round(kg.t)} :
          kg' = [kg EXCEPT !.pc = "done", !.t1 = S.t1, !.t0 = S.t0]
    /\ last' = Called("poly_power2round", 0)
    /\ UNCHANGED <<ctx, shr64, diag, phase, wf, calls, msg, inlen, fin, out,
                   perms, hi, runs, kf, xof>>

NextKeygen ==
    \/ \E s \in 1 .. Len(Int64Samples) : ReduceModQ(s)
    \/ \E p \in MultiplyPairs : PolyMultiplyEnter(p[1], p[2])
    \/ PolyMultiplyRow
    \/ \E c \in {"small", "bottom"} : PolyAdd(c)
    \/ \E a, c \in PolyKinds : PolyAddOf(a, c)
    \/ PolyPower2Round

SpecKeygen == InitKeygen /\ [][NextKeygen]_vars

-----------------------------------------------------------------------------
(* Claims about the one-shot calls, checked under SpecXof *)

SameCall(a, b) ==
    a.bits = b.bits /\ a.input = b.input /\ a.outlen = b.outlen

\* C1 (extendability): of two one-shot calls of the same variant on the same
\* input, with output lengths n1 <= n2, the call with n1 writes exactly n1
\* bytes and they are the first n1 bytes that the call with n2 writes.
C1_Extendability ==
    \A i, j \in 1 .. Len(runs) :
        (/\ runs[i].bits = runs[j].bits
         /\ runs[i].input = runs[j].input
         /\ runs[i].outlen <= runs[j].outlen)
        => /\ Len(runs[i].output) = runs[i].outlen
           /\ SubSeq(runs[j].output, 1, runs[i].outlen) = runs[i].output

\* Two calls on the same input whose output lengths end in different
\* rate-sized output blocks.
C1_Witness ==
    \E i, j \in 1 .. Len(runs) :
        /\ runs[i].bits = runs[j].bits
        /\ runs[i].input = runs[j].input
        /\ runs[i].input # << >>
        /\ runs[i].outlen < RateOf(runs[i].bits)
        /\ runs[j].outlen > RateOf(runs[j].bits)
        /\ Len(runs[j].output) = runs[j].outlen

\* The published SHAKE-128 output for the empty message, 32 bytes.
Shake128Empty32 ==
    <<127, 156, 43, 164, 232, 143, 130, 125, 97, 96, 69, 80, 118, 5, 133, 62,
      215, 59, 128, 147, 246, 239, 188, 136, 235, 26, 110, 172, 250, 102, 239,
      38>>

\* C9 (known vector): shake128 on the empty input with output length 32
\* writes the published SHAKE-128 empty-message bytes 7f 9c 2b a4 ... ef 26.
C9_KnownVector ==
    \A i \in 1 .. Len(runs) :
        (runs[i].bits = 128 /\ runs[i].input = << >> /\ runs[i].outlen = 32)
        => runs[i].output = Shake128Empty32

C9_Witness ==
    \E i \in 1 .. Len(runs) :
        /\ runs[i].bits = 128
        /\ runs[i].input = << >>
        /\ runs[i].outlen = 32
        /\ Len(runs[i].output) = 32

\* C10 (determinism): two one-shot calls of the same variant with equal input
\* and equal output length write equal bytes, whatever the memory of their
\* local context held before.
C10_Determinism ==
    \A i, j \in 1 .. Len(runs) :
        SameCall(runs[i], runs[j]) => runs[i].output = runs[j].output

\* Two calls with equal arguments whose local contexts lay in memory of
\* different contents, neither of them zero.
C10_Witness ==
    \E i, j \in 1 .. Len(runs) :
        /\ SameCall(runs[i], runs[j])
        /\ runs[i].mem # runs[j].mem
        /\ runs[i].mem.state # NoFin.state
        /\ runs[j].mem.state # NoFin.state
        /\ runs[i].outlen > 0

-----------------------------------------------------------------------------
(* Claims about the sponge engine, checked under Spec *)

\* C2 (chunk-invariance of absorb): while the calls follow the protocol, the
\* lanes and the cursor after any sequence of shake_absorb calls are those
\* that one shake_absorb call on the whole input leaves, and so is the context
\* that shake_finalize leaves, from which all output is squeezed.
C2_AbsorbChunkInvariance ==
    /\ (wf /\ phase = "absorbing") => ctx = OneAbsorb.ctx
    /\ (wf /\ phase = "squeezing") => fin = shake_finalize(OneAbsorb.ctx).ctx

\* The input was absorbed as one byte and then a chunk of rate bytes, which
\* crosses the rate boundary.
C2_Witness ==
    /\ wf
    /\ phase = "absorbing"
    /\ calls = 2
    /\ last = Called("shake_absorb", ctx.rate)
    /\ inlen = ctx.rate + 1
    /\ perms = 1

\* C3 (finalize exactly once), as claimed: a shake_absorb or shake_finalize
\* call made after shake_finalize reports an error and leaves the lanes and
\* the cursor as they were.
C3_FinalizeExactlyOnce ==
    [][(phase = "squeezing" /\ last'.op \in {"shake_absorb", "shake_finalize"})
         => (diag' # "" /\ ctx' = ctx)]_vars

\* The state after k full blocks of the message, block by block: XOR the
\* rate bytes of the block into the rate part, then permute.
XorBlock(state, m, rate, from) ==
    [i \in 0 .. STATE_SIZE - 1 |->
        Xor(state[i],
            UNION {ByteBits(MsgByte(m, from + 8 * i + o + 1), o) :
                   o \in {q \in 0 .. 7 : 8 * i + q < rate}})]

RECURSIVE AfterBlocks(_, _, _)
AfterBlocks(m, rate, k) ==
    IF k = 0
    THEN [i \in 0 .. STATE_SIZE - 1 |-> {}]
    ELSE Only({ keccak_f1600(XorBlock(S, m, rate, (k - 1) * rate)) :
                S \in {AfterBlocks(m, rate, k - 1)} })

\* C4 (block-boundary padding): while absorbing, shake_absorb returns with
\* every full block permuted and the cursor below the rate, so that
\* shake_finalize is never entered with a full unpermuted block; and when the
\* input is k >= 1 full blocks, shake_finalize puts 0x1F on byte 0 and 0x80 on
\* byte rate-1 of the state that the k permutations left.
C4_BlockBoundaryPadding ==
    /\ (wf /\ phase = "absorbing")
          => /\ ctx.absorb_pos < ctx.rate
             /\ ctx.absorb_pos = inlen % ctx.rate
             /\ perms = inlen \div ctx.rate
    /\ (wf /\ phase = "squeezing" /\ inlen > 0 /\ inlen % ctx.rate = 0)
          => fin.state = keccak_f1600(
                 XorByte(XorByte(AfterBlocks(msg, ctx.rate, inlen \div ctx.rate), 0, 31),
                         ctx.rate - 1, 128))

\* shake_finalize has just run after exactly one full block of input.
C4_Witness ==
    /\ wf
    /\ last.op = "shake_finalize"
    /\ inlen = ctx.rate
    /\ perms = 2

\* C5 (squeeze chunk-invariance): while the calls follow the protocol, the
\* bytes squeezed by the shake_squeeze calls made so far, and the lanes and
\* cursor they leave, are those of one shake_squeeze call for the total
\* length on the context that shake_finalize left.
C5_SqueezeChunkInvariance ==
    (wf /\ phase = "squeezing")
        => \E r \in {shake_squeeze(fin, Len(out))} :
              r.out = out /\ r.ctx = ctx

\* One byte was squeezed and then rate bytes, across the end of the block.
C5_Witness ==
    /\ wf
    /\ phase = "squeezing"
    /\ calls = 3
    /\ last = Called("shake_squeeze", ctx.rate)
    /\ Len(out) = ctx.rate + 1

\* C6 (cursor invariant), as claimed: after any sequence of calls the cursor
\* is between 0 and the rate.
C6_CursorInRange == 0 <= ctx.absorb_pos /\ ctx.absorb_pos <= ctx.rate

\* C7 (capacity is untouched): while the calls follow the protocol, every
\* flat byte that shake_absorb or shake_finalize has XORed into and every one
\* that shake_squeeze has read has an index below the rate.
C7_CapacityUntouched == wf => hi < ctx.rate

\* A whole block was absorbed and a whole block squeezed.
C7_Witness ==
    /\ wf
    /\ inlen >= ctx.rate
    /\ Len(out) >= ctx.rate
    /\ hi = ctx.rate - 1

\* C8 (invalid variant), as claimed: shake_init with a selector other than 128
\* or 256 reports it and leaves the context without a rate to run with.
C8_InvalidVariantRejected ==
    (last.op = "shake_init" /\ last.arg \notin {128, 256})
        => (diag # "" /\ ctx.rate \notin {SHAKE128_RATE, SHAKE256_RATE})

\* a ^ b on two bytes.
BXor(a, b) ==
    LET bit(v, j) == (v \div (2 ^ j)) % 2
        S == {j \in 0 .. 7 : bit(a, j) # bit(b, j)}
    IN (IF 0 \in S THEN 1 ELSE 0) + (IF 1 \in S THEN 2 ELSE 0)
       + (IF 2 \in S THEN 4 ELSE 0) + (IF 3 \in S THEN 8 ELSE 0)
       + (IF 4 \in S THEN 16 ELSE 0) + (IF 5 \in S THEN 32 ELSE 0)
       + (IF 6 \in S THEN 64 ELSE 0) + (IF 7 \in S THEN 128 ELSE 0)

\* The lanes whose flat bytes are those of state, except byte p, which is
\* XORed with 0x1F, and byte last_byte, which is XORed with 0x80: 0x9F on
\* the one byte when p = last_byte.
Padded(state, p, last_byte) ==
    [i \in 0 .. STATE_SIZE - 1 |->
        UNION {ByteBits(BXor(GetByte(state, 8 * i + o),
                             IF 8 * i + o = p /\ p = last_byte THEN 159
                             ELSE IF 8 * i + o = p THEN 31
                             ELSE IF 8 * i + o = last_byte THEN 128
                             ELSE 0), o) : o \in 0 .. 7}]

\* C11 (finalize padding): a shake_finalize call entered with the cursor p
\* below the rate leaves the lanes that one permutation makes of the entry
\* lanes with 0x1F XORed into flat byte p and 0x80 into flat byte rate-1 and
\* every other byte as it was, applies the permutation once and leaves the
\* cursor at 0.
C11_FinalizePadding ==
    [][(last'.op = "shake_finalize" /\ ctx.absorb_pos < ctx.rate)
         => (/\ \E P \in {Padded(ctx.state, ctx.absorb_pos, ctx.rate - 1)} :
                   ctx'.state = keccak_f1600(P)
             /\ perms' = perms + 1
             /\ ctx'.absorb_pos = 0
             /\ ctx'.rate = ctx.rate)]_vars

\* shake_finalize has run with the cursor on the last byte of the rate, on
\* lanes that a permutation had filled.
C11_Witness ==
    /\ last.op = "shake_finalize"
    /\ wf
    /\ inlen = 2 * ctx.rate - 1
    /\ perms = 2
    /\ ctx.absorb_pos = 0

\* The lanes after j applications of keccak_f1600.
RECURSIVE Permuted(_, _)
Permuted(state, j) ==
    IF j = 0 THEN state
    ELSE Only({ keccak_f1600(S) : S \in {Permuted(state, j - 1)} })

\* C15 (squeeze block schedule): while the calls follow the protocol, the
\* shake_squeeze calls made after shake_finalize, for n bytes in all, have
\* applied the permutation 0 times when n = 0 and ceil(n/rate) - 1 times when
\* n >= 1; output byte k is flat byte k mod rate of the finalized lanes after
\* floor(k/rate) permutations; and the lanes are those of the block of the
\* last byte read, with the cursor behind that byte.
C15_SqueezeSchedule ==
    (wf /\ phase = "squeezing")
        => LET n == Len(out)
               blocks == IF n = 0 THEN 0 ELSE (n - 1) \div ctx.rate
           IN /\ perms = (inlen \div ctx.rate) + 1 + blocks
              /\ ctx.absorb_pos = n - blocks * ctx.rate
              /\ \A j \in 0 .. blocks :
                    \E S \in {Permuted(fin.state, j)} :
                       /\ \A k \in 0 .. n - 1 :
                             k \div ctx.rate = j
                                => out[k + 1] = GetByte(S, k % ctx.rate)
                       /\ j = blocks => ctx.state = S

\* Exactly one block was squeezed, then exactly one more: the first call
\* ended on the last byte of a block and the second began with a permutation.
C15_Witness ==
    /\ wf
    /\ phase = "squeezing"
    /\ last = Called("shake_squeeze", ctx.rate)
    /\ Len(out) = 2 * ctx.rate
    /\ ctx.absorb_pos = ctx.rate
    /\ ctx.state # fin.state

\* The lanes with the len message bytes that follow the first from bytes
\* XORed into the flat bytes 0 .. len - 1.
XorTail(state, m, from, len) ==
    [i \in 0 .. STATE_SIZE - 1 |->
        Xor(state[i],
            UNION {ByteBits(MsgByte(m, from + 8 * i + o + 1), o) :
                   o \in {q \in 0 .. 7 : 8 * i + q < len}})]

\* C16 (absorb block schedule): after shake_init and shake_absorb calls for L
\* bytes in all, the permutation has been applied floor(L/rate) times, the
\* cursor is L mod rate, below the rate, and the lanes are those in which
\* every input byte i was XORed into flat byte i mod rate of the lanes
\* reached after floor(i/rate) permutations.
C16_AbsorbSchedule ==
    (wf /\ phase = "absorbing")
        => LET L == inlen
               full == L \div ctx.rate
           IN /\ perms = full
              /\ ctx.absorb_pos = L - full * ctx.rate
              /\ ctx.absorb_pos < ctx.rate
              /\ \E S \in {AfterBlocks(msg, ctx.rate, full)} :
                    ctx.state = XorTail(S, msg, full * ctx.rate, L - full * ctx.rate)

\* Bytes that are not all zero were absorbed past the end of a block, in
\* calls that do not end on block boundaries.
C16_Witness ==
    /\ wf
    /\ phase = "absorbing"
    /\ msg = "mixed"
    /\ calls = 3
    /\ inlen = 2 * ctx.rate - 1
    /\ ctx.absorb_pos = ctx.rate - 1
    /\ perms = 1

-----------------------------------------------------------------------------
(* Claims about keccak_f1600, checked under SpecKeccak *)

\* C12 (rotation amount in range), as claimed: every rotl64 call made in
\* keccak_f1600 has 0 < n < 64, so that its right shift, by 64 - n, is by
\* less than 64.
C12_RotationInRange ==
    kf.n # NoCall => (0 < kf.n /\ kf.n < 64 /\ 64 - kf.n < 64)

\* The position whose lane the pi step moves to (x, y): the one position
\* (u, v) with v = x and 2u + 3v = y modulo 5.
PiSource(x, y) == idx((x + 3 * y) % 5, x)

\* What rho/pi is to leave at (x, y): the lane at PiSource(x, y) of the
\* lanes theta left, rotated by that position's offset.
RhoPiLane(x, y) ==
    rotl64(kf.T[PiSource(x, y)], keccak_rotations[PiSource(x, y) + 1])

\* C13 (rho/pi scratch discipline): in every round no entry of B is written
\* twice, every entry has been written once when chi starts, each holds the
\* rotated lane of its one source position in the lanes theta left, and chi
\* leaves at every (x, y) the combination of those three entries of its row.
C13_ScratchDiscipline ==
    /\ kf.pc = "rhopi" => \A d \in 0 .. STATE_SIZE - 1 : kf.writes[d] <= 1
    /\ kf.pc \in {"chi", "iota"}
          => \A x, y \in 0 .. 4 :
                /\ kf.writes[idx(x, y)] = 1
                /\ kf.B[idx(x, y)] = RhoPiLane(x, y)
    /\ kf.pc = "iota"
          => \A x, y \in 0 .. 4 :
                kf.state[idx(x, y)] =
                    Xor(RhoPiLane(x, y),
                        (Lane64 \ RhoPiLane((x + 1) % 5, y))
                            \cap RhoPiLane((x + 2) % 5, y))

\* chi has run in the last round, on a B that the round has filled.
C13_Witness ==
    /\ kf.pc = "iota"
    /\ kf.round = KECCAK_ROUNDS - 1
    /\ \A d \in 0 .. STATE_SIZE - 1 : kf.writes[d] = 1 /\ kf.B[d] # Uninit
    /\ kf.state # kf.T

\* The t-th position (t = 0 .. 23) of the walk that starts at (1, 0) and
\* steps (x, y) -> (y, (2x + 3y) mod 5).
RECURSIVE WalkPos(_)
WalkPos(t) ==
    IF t = 0 THEN <<1, 0>>
    ELSE LET q == WalkPos(t - 1) IN <<q[2], (2 * q[1] + 3 * q[2]) % 5>>

\* The rotation offset of Keccak-f[1600] for the lane at index i = y*5 + x:
\* 0 at (0, 0), and ((t + 1)(t + 2) / 2) mod 64 at the t-th position of the
\* walk.
StandardOffset ==
    [i \in 0 .. STATE_SIZE - 1 |->
        IF i = 0 THEN 0
        ELSE LET t == CHOOSE u \in 0 .. 23 : idx(WalkPos(u)[1], WalkPos(u)[2]) = i
             IN (((t + 1) * (t + 2)) \div 2) % 64]

\* C14 (rotation offset table): every entry of keccak_rotations is in 0..63
\* and is the standard offset of its position y*5 + x, and each rho/pi
\* iteration rotates the lane at the source position (x, y) by the standard
\* offset of that position.
C14_StandardOffsets ==
    /\ \A i \in 0 .. STATE_SIZE - 1 :
          /\ keccak_rotations[i + 1] \in 0 .. 63
          /\ keccak_rotations[i + 1] = StandardOffset[i]
    /\ kf.src # NoCall
          => /\ kf.n = StandardOffset[kf.src]
             /\ kf.B[RhoPiDest(kf.src % 5, kf.src \div 5)] =
                    rotl64(kf.T[kf.src], StandardOffset[kf.src])

\* The last rho/pi iteration of the last round has run.
C14_Witness ==
    /\ kf.pc = "chi"
    /\ kf.round = KECCAK_ROUNDS - 1
    /\ kf.src = idx(4, 4)
    /\ kf.n = 14

-----------------------------------------------------------------------------
(* Claims about one one-shot call, checked under SpecOneShot *)

\* The calls a one-shot call is to make on its local context, in order.
ExpectedCalls ==
    <<Called("shake_init", xof.bits),
      Called("shake_absorb", Len(xof.input)),
      Called("shake_finalize", 0),
      Called("shake_squeeze", xof.outlen)>>

\* C17 (one-shot call order): the calls that shake128 and shake256 make on
\* their local context are, in this order and once each, shake_init (leaving
\* rate 168 in shake128 and 136 in shake256), shake_absorb of the whole
\* input, shake_finalize and shake_squeeze of outlen bytes; when the call
\* returns all four are made, also with an empty input and with outlen 0,
\* shake_finalize has applied its permutation, and outlen bytes are written:
\* none when outlen is 0.
C17_OneShotOrder ==
    /\ Len(xof.trace) <= 4
    /\ \A i \in 1 .. Len(xof.trace) : xof.trace[i] = ExpectedCalls[i]
    /\ Len(xof.trace) >= 1
          => ctx.rate = (IF xof.bits = 128 THEN SHAKE128_RATE ELSE SHAKE256_RATE)
    /\ (xof.pc \in {"return", "idle"} /\ xof.bits # 0)
          => /\ xof.trace = ExpectedCalls
             /\ inlen = Len(xof.input)
             /\ fin # NoFin
             /\ perms = (Len(xof.input) \div ctx.rate) + 1
                         + (IF xof.outlen = 0 THEN 0
                            ELSE (xof.outlen - 1) \div ctx.rate)
             /\ Len(out) = xof.outlen
    /\ \A i \in 1 .. Len(runs) : Len(runs[i].output) = runs[i].outlen

\* A one-shot call has returned that had no input byte and no output byte.
C17_Witness ==
    /\ xof.pc = "idle"
    /\ Len(runs) = 1
    /\ runs[1].input = << >>
    /\ runs[1].outlen = 0
    /\ Len(xof.trace) = 4
    /\ perms = 1

-----------------------------------------------------------------------------
(* Claims about the key-generation arithmetic, checked under SpecKeygen *)

InRange(p) == \A k \in 0 .. N - 1 : 0 <= p[k] /\ p[k] < Q

\* C18 (coefficient range): reduce_mod_q(a) returns r with 0 <= r < Q and
\* a - r a multiple of Q, for int64_t a of either sign; every coefficient
\* that poly_multiply and poly_add write, from coefficients in (-Q, Q), is in
\* 0 .. Q - 1, the sums of poly_add being congruent to their operands'; and
\* every int64_t sum and product fits its type.
C18_CoefficientRange ==
    /\ kg.fits
    /\ kg.pc = "reduced"
          => /\ 0 <= kg.result /\ kg.result < Q
             /\ MagMod(Add64(kg.arg, I64(-kg.result)).mag, Q) = 0
    /\ kg.pc \in {"poly_multiply", "poly_add"} => InRange(kg.r)
    /\ kg.pc \in {"poly_power2round", "done"}
          => /\ InRange(kg.t)
             /\ \A k \in 0 .. N - 1 :
                   (kg.t[k] - kg.r[k] - Coeffs(kg.c)[k]) % Q = 0

\* poly_multiply has run to its end on operands whose products are
\* negative and of the largest magnitude, half of them negated again.
C18_Witness ==
    /\ kg.pc = "poly_add"
    /\ kg.i = N
    /\ kg.a = "top"
    /\ kg.b = "bottom"
    /\ \E k \in 0 .. N - 1 : kg.r[k] # 0

\* C19 (high/low split round trip): for every coefficient c of t with
\* 0 <= c < Q, poly_power2round leaves t0 and t1 with 0 <= t0 < 2^13, t1 >= 0
\* and t1 * 2^13 + t0 = c.
C19_Power2RoundTrip ==
    kg.pc = "done"
        => \A k \in 0 .. N - 1 :
              (0 <= kg.t[k] /\ kg.t[k] < Q)
                 => /\ 0 <= kg.t0[k] /\ kg.t0[k] < 2 ^ 13
                    /\ kg.t1[k] >= 0
                    /\ kg.t1[k] * (2 ^ 13) + kg.t0[k] = kg.t[k]

\* poly_power2round has run on coefficients at the edges of the low 13 bits
\* and of 0 .. Q - 1.
C19_Witness ==
    /\ kg.pc = "done"
    /\ kg.t = Coeffs("edges")
    /\ kg.t1[7] = (Q - 1) \div (2 ^ 13)
    /\ kg.t0[2] = 2 ^ 13 - 1

====
